---- MODULE Spec2Model ----
(***************************************************************************)
(* Model of multitest.py: the name synthesizer pystr, the combination      *)
(* generator mix_params and the registration engine MultiTestMeta.__new__. *)
(*                                                                         *)
(* Text is a sequence of one-character strings, so that pystr can work     *)
(* character by character as the source does.  A value of a domain is a    *)
(* record [t, s, n, f]: a str (its text s), an int (n) or a decimal float  *)
(* (integer part n, fraction digits f); str() of it is the operator Str.   *)
(***************************************************************************)
EXTENDS Integers, Sequences, FiniteSets, TLC

VARIABLES
    attrs,      \* the member mapping `attrs` of __new__: name -> member
    declared,   \* the mapping as it was handed to __new__ (history, never written)
    items,      \* the list attrs.items() taken when the outer loop starts
    visited,    \* the members of `items` line 92 selects that the outer loop has reached
    name,       \* loop variable `name` of the outer loop
    combos,     \* what mix_params(method._metatest_params) yields, in order
    ci,         \* 1-based index in `combos` of the next combination
    pc,         \* "start", "scan", "expand", "done", "failed"
    err,        \* the exception that ended __new__, or "none"
    log,        \* history: one record per install, in order
    call,       \* the call the last invoked generated entry made
    val,        \* pystr run: the value given to pystr
    out         \* pystr run: what pystr returned ("pending" before)

vars == <<attrs, declared, items, visited, name, combos, ci, pc, err, log, call, val, out>>

----------------------------------------------------------------------------
(* Bounds of the checked instances.                                        *)

MaxDomLen == 2

MaxPos == 2

MaxDomains == 3

MaxStrLen == 2

----------------------------------------------------------------------------
(* Text.                                                                   *)

Lower == {"a","b","c","d","e","f","g","h","i","j","k","l","m",
          "n","o","p","q","r","s","t","u","v","w","x","y","z"}

Upper == {"A","B","C","D","E","F","G","H","I","J","K","L","M",
          "N","O","P","Q","R","S","T","U","V","W","X","Y","Z"}

DigitSeq == <<"0","1","2","3","4","5","6","7","8","9">>

DigitChars == {DigitSeq[i] : i \in 1..10}

\* str.isalnum() of one ASCII character
IsAlnum(c) == c \in Lower \cup Upper \cup DigitChars

\* The characters of names and keys in ASCII order: what < on str compares.
AsciiOrder ==
    DigitSeq \o
    <<"A","B","C","D","E","F","G","H","I","J","K","L","M",
      "N","O","P","Q","R","S","T","U","V","W","X","Y","Z">> \o
    <<"_">> \o
    <<"a","b","c","d","e","f","g","h","i","j","k","l","m",
      "n","o","p","q","r","s","t","u","v","w","x","y","z">>

Ord(c) == CHOOSE i \in 1..Len(AsciiOrder) : AsciiOrder[i] = c

RECURSIVE StrLess(_, _)
\* a < b on two str values (lexicographic by character code)
StrLess(a, b) ==
    IF b = <<>> THEN FALSE
    ELSE IF a = <<>> THEN TRUE
    ELSE IF Head(a) = Head(b) THEN StrLess(Tail(a), Tail(b))
    ELSE Ord(Head(a)) < Ord(Head(b))

RECURSIVE Dec(_)
\* str(i) of a non-negative int: its decimal digits
Dec(i) == IF i < 10 THEN <<DigitSeq[i + 1]>>
          ELSE Dec(i \div 10) \o <<DigitSeq[(i % 10) + 1]>>

RECURSIVE Join(_, _)
\* sep.join(parts)
Join(parts, sep) ==
    IF parts = <<>> THEN <<>>
    ELSE IF Len(parts) = 1 THEN parts[1]
    ELSE parts[1] \o sep \o Join(Tail(parts), sep)

RECURSIVE Flatten(_)
\* ''.join(parts)
Flatten(parts) == IF parts = <<>> THEN <<>> ELSE Head(parts) \o Flatten(Tail(parts))

----------------------------------------------------------------------------
(* Values and str().                                                       *)

StrVal(s) == [t |-> "str", s |-> s, n |-> 0, f |-> <<>>]

IntVal(n) == [t |-> "int", s |-> <<>>, n |-> n, f |-> <<>>]

FloatVal(n, f) == [t |-> "float", s |-> <<>>, n |-> n, f |-> f]

\* str(n): the text of a str, the digits of an int, "<int>.<fraction>" of a float
Str(v) == CASE v.t = "str"   -> v.s
            [] v.t = "int"   -> Dec(v.n)
            [] v.t = "float" -> Dec(v.n) \o <<".">> \o v.f

----------------------------------------------------------------------------
(* pystr, lines 58-65.                                                     *)

AS_WORD ==
    [c \in {".", "-", "+", "#", "!", "\"", "$", "%", "&", "/", "\\", "=", ",", ";", ":"} |->
        CASE c = "."  -> <<"_">>
          [] c = "-"  -> <<"m","i","n","u","s">>
          [] c = "+"  -> <<"p","l","u","s">>
          [] c = "#"  -> <<"n","u","m">>
          [] c = "!"  -> <<"e","x","c","l">>
          [] c = "\"" -> <<"q","u","o","t">>
          [] c = "$"  -> <<"d","o","l","l","a","r">>
          [] c = "%"  -> <<"p","e","r","c","n","t">>
          [] c = "&"  -> <<"a","m","p">>
          [] c = "/"  -> <<"s","o","l">>
          [] c = "\\" -> <<"b","s","o","l">>
          [] c = "="  -> <<"e","q">>
          [] c = ","  -> <<"c","o","m","m","a">>
          [] c = ";"  -> <<"s","e","m","i">>
          [] c = ":"  -> <<"c","o","l","o","n">>]

\* a mutant of PystrChar: isalpha for isalnum
PystrCharNoDigits(x) ==
    IF x \in Lower \cup Upper THEN <<x>>
    ELSE IF x \in DOMAIN AS_WORD THEN AS_WORD[x] ELSE <<"_">>

\* x if x.isalnum() else AS_WORD.get(x, '_')
PystrChar(x) ==
    IF IsAlnum(x) THEN <<x>>
    ELSE IF x \in DOMAIN AS_WORD THEN AS_WORD[x] ELSE <<"_">>

\* pystr = lambda n: ''.join(... for x in str(n))
pystr(n) == LET s == Str(n) IN Flatten([i \in 1..Len(s) |-> PystrChar(s[i])])

----------------------------------------------------------------------------
(* Members of a test group.                                                *)
(*   callable     callable(member)                                         *)
(*   marked       hasattr(member, '_metatest_params')                      *)
(*   args, kwargs member._metatest_params; kwargs is the dict as the       *)
(*                sequence of its items in the dict's iteration order      *)
(*   decl         the keys of kwargs in the order the with_combined call   *)
(*                wrote them (history)                                     *)
(*   doc          member.__doc__ of a declared function: None, or the      *)
(*                docstring as the tokens string.Template splits it into   *)
(*   gen          the member is an actual_test made by __new__, with       *)
(*                na, ar, kw its three bound defaults and gdoc its __doc__ *)

NoDoc == [none |-> TRUE, toks |-> <<>>]

DocOf(toks) == [none |-> FALSE, toks |-> toks]

\* def f(self, ...): with docstring doc, not decorated
Function(doc) ==
    [callable |-> TRUE, marked |-> FALSE, args |-> <<>>, kwargs |-> <<>>, decl |-> <<>>,
     doc |-> doc, gen |-> FALSE, na |-> <<>>, ar |-> <<>>, kw |-> <<>>, gdoc |-> <<>>]

\* a class attribute that is not callable
Attribute ==
    [callable |-> FALSE, marked |-> FALSE, args |-> <<>>, kwargs |-> <<>>, decl |-> <<>>,
     doc |-> NoDoc, gen |-> FALSE, na |-> <<>>, ar |-> <<>>, kw |-> <<>>, gdoc |-> <<>>]

\* with_combined(*args, **kwargs)(method): kwargs written in the order `kwargs`,
\* held by a dict whose iteration order is `order` (a permutation of its indices)
with_combined(method, args, kwargs, order) ==
    [method EXCEPT !.marked = TRUE,
                   !.args   = args,
                   !.kwargs = [i \in 1..Len(kwargs) |-> kwargs[order[i]]],
                   !.decl   = [i \in 1..Len(kwargs) |-> kwargs[i].k]]

----------------------------------------------------------------------------
(* mix_params, lines 67-75.                                                *)

\* a mutant of ProductRound: pairs each x with one y only (zip instead of product)
ProductRoundZip(result, pool) ==
    [i \in 1..(IF Len(result) < Len(pool) THEN Len(result) ELSE Len(pool)) |->
        result[i] \o <<pool[i]>>]

\* one round of itertools.product: [x+[y] for x in result for y in pool]
ProductRound(result, pool) ==
    Flatten([i \in 1..Len(result) |-> [j \in 1..Len(pool) |-> result[i] \o <<pool[j]>>]])

RECURSIVE ProductFold(_, _)
\* itertools.product(*pools): result = [[]]; for pool in pools: result = round
ProductFold(result, pools) ==
    IF pools = <<>> THEN result
    ELSE ProductFold(ProductRound(result, Head(pools)), Tail(pools))

KeyIndex(kwargs, k) == CHOOSE i \in 1..Len(kwargs) : kwargs[i].k = k

\* the combinations (test_args, test_kwargs) in the order mix_params yields them
mix_params(args, kwargs) ==
    LET args_len == Len(args)
        pools    == args \o [i \in 1..Len(kwargs) |-> kwargs[i].dom]
        prod     == ProductFold(<< <<>> >>, pools)
    IN  [c \in 1..Len(prod) |->
            [ar |-> SubSeq(prod[c], 1, args_len),
             kw |-> [k \in {kwargs[i].k : i \in 1..Len(kwargs)} |->
                        prod[c][args_len + KeyIndex(kwargs, k)]]]]

----------------------------------------------------------------------------
(* The body of the inner loop of MultiTestMeta.__new__, lines 93-125.      *)

T_arg == <<"a","r","g">>

T_test == <<"t","e","s","t","_">>

\* dict(('arg'+str(num), val) for num, val in enumerate(test_args))
PositionalDict(test_args) ==
    [k \in {T_arg \o Dec(num) : num \in 0..(Len(test_args) - 1)} |->
        test_args[(CHOOSE num \in 0..(Len(test_args) - 1) : k = T_arg \o Dec(num)) + 1]]

\* a mutant of SubDict: the positional entries win over the named ones
SubDictPositionalWins(test_args, test_kwargs) ==
    LET pos == PositionalDict(test_args)
    IN  [k \in DOMAIN pos \cup DOMAIN test_kwargs |->
            IF k \in DOMAIN pos THEN pos[k] ELSE test_kwargs[k]]

\* sub_dict after sub_dict.update(test_kwargs), lines 102-103
SubDict(test_args, test_kwargs) ==
    LET pos == PositionalDict(test_args)
    IN  [k \in DOMAIN pos \cup DOMAIN test_kwargs |->
            IF k \in DOMAIN test_kwargs THEN test_kwargs[k] ELSE pos[k]]

\* what safe_substitute puts for one token of the template:
\*   $name, ${name}: '%s' % mapping[name], or the token itself on KeyError;
\*   $$: the delimiter; a lone $: the delimiter; other text: itself
Convert(tok, mapping) ==
    CASE tok.kind = "named"   -> IF tok.text \in DOMAIN mapping
                                 THEN Str(mapping[tok.text])
                                 ELSE <<"$">> \o tok.text
      [] tok.kind = "braced"  -> IF tok.text \in DOMAIN mapping
                                 THEN Str(mapping[tok.text])
                                 ELSE <<"$", "{">> \o tok.text \o <<"}">>
      [] tok.kind = "escaped" -> <<"$">>
      [] tok.kind = "invalid" -> <<"$">>
      [] tok.kind = "lit"     -> tok.text

\* string.Template(doc).safe_substitute(sub_dict), line 104, of a docstring
safe_substitute(toks, mapping) ==
    Flatten([i \in 1..Len(toks) |-> Convert(toks[i], mapping)])

RECURSIVE SortKeys(_)
\* the keys of sorted(test_kwargs.items()): the items are ordered by key,
\* the keys of a dict being distinct
SortKeys(S) ==
    IF S = {} THEN <<>>
    ELSE LET m == CHOOSE k \in S : \A j \in S \ {k} : StrLess(k, j)
         IN  <<m>> \o SortKeys(S \ {m})

\* a mutant of NamedPart: the items in the dict's order, not sorted
NamedPartUnsorted(method, test_kwargs) ==
    Join([i \in 1..Len(method.kwargs) |->
            pystr(StrVal(method.kwargs[i].k)) \o <<"_">> \o
            pystr(test_kwargs[method.kwargs[i].k])], <<"_">>)

\* '_'.join(pystr(k)+'_'+pystr(v) for k,v in sorted(test_kwargs.items()));
\* `method` is the template whose kwargs dict gave test_kwargs its keys
NamedPart(method, test_kwargs) ==
    LET keys == SortKeys(DOMAIN test_kwargs)
    IN  Join([i \in 1..Len(keys) |->
                pystr(StrVal(keys[i])) \o <<"_">> \o pystr(test_kwargs[keys[i]])], <<"_">>)

\* the name assembled on lines 106-110
AssembledName(na, method, test_args, test_kwargs) ==
    T_test \o na \o
    (IF test_args # <<>> \/ DOMAIN test_kwargs # {} THEN <<"_">> ELSE <<>>) \o
    Join([i \in 1..Len(test_args) |-> pystr(test_args[i])], <<"_">>) \o
    (IF test_args # <<>> /\ DOMAIN test_kwargs # {} THEN <<"_">> ELSE <<>>) \o
    NamedPart(method, test_kwargs)

\* range(1023) on line 115 stops before this number
RangeStop == 1023

\* prefix_name + '_' + str(i)
Suffixed(prefix_name, i) == prefix_name \o <<"_">> \o Dec(i)

\* a mutant of UniqueName: the assembled name is used as it is
UniqueNameNoCheck(members, actual_name) ==
    [ok |-> TRUE, name |-> actual_name]

\* a mutant of UniqueName: the search gives up one candidate early
UniqueNameShort(members, actual_name) ==
    IF actual_name \notin members THEN [ok |-> TRUE, name |-> actual_name]
    ELSE IF \E i \in 0..(RangeStop - 2) : Suffixed(actual_name, i) \notin members
    THEN [ok |-> TRUE,
          name |-> Suffixed(actual_name,
                     CHOOSE i \in 0..(RangeStop - 2) :
                        /\ Suffixed(actual_name, i) \notin members
                        /\ \A j \in 0..(i - 1) : Suffixed(actual_name, j) \in members)]
    ELSE [ok |-> FALSE, name |-> actual_name]

\* lines 112-121: the name the entry gets, `members` being the keys of attrs;
\* the loop leaves at the first i whose candidate is free, and its else branch
\* (ok = FALSE: RuntimeError) runs when no i of range(1023) is
UniqueName(members, actual_name) ==
    IF actual_name \notin members THEN [ok |-> TRUE, name |-> actual_name]
    ELSE IF \E i \in 0..(RangeStop - 1) : Suffixed(actual_name, i) \notin members
    THEN [ok |-> TRUE,
          name |-> Suffixed(actual_name,
                     CHOOSE i \in 0..(RangeStop - 1) :
                        /\ Suffixed(actual_name, i) \notin members
                        /\ \A j \in 0..(i - 1) : Suffixed(actual_name, j) \in members)]
    ELSE [ok |-> FALSE, name |-> actual_name]

\* the function actual_test of lines 95-96 with its defaults bound, its __doc__
\* (line 104) and the func_dict of the template (line 124), which holds
\* _metatest_params
ActualTest(method, na, test_args, test_kwargs, doc) ==
    [method EXCEPT !.gen = TRUE, !.na = na, !.ar = test_args, !.kw = test_kwargs,
                   !.doc = NoDoc, !.gdoc = doc]

\* One pass through lines 93-125 for the combination (test_args, test_kwargs) of
\* the template `method` named `na`: the exception raised, or the name and the
\* entry line 125 installs.  string.Template(None).safe_substitute raises
\* TypeError (the pattern is matched against None).
Materialize(members, na, method, test_args, test_kwargs) ==
    IF method.doc.none
    THEN [err |-> "TypeError", assembled |-> <<>>, name |-> <<>>,
          entry |-> ActualTest(method, na, test_args, test_kwargs, <<>>)]
    ELSE LET doc         == safe_substitute(method.doc.toks, SubDict(test_args, test_kwargs))
             actual_name == AssembledName(na, method, test_args, test_kwargs)
             unique      == UniqueName(members, actual_name)
         IN  [err       |-> IF unique.ok THEN "none" ELSE "RuntimeError",
              assembled |-> actual_name,
              name      |-> unique.name,
              entry     |-> ActualTest(method, na, test_args, test_kwargs, doc)]

----------------------------------------------------------------------------
(* The groups registration is run on.                                      *)

N_a == <<"a">>

N_a_b == <<"a","_","b">>

K_arg0 == T_arg \o <<"0">>

K_col == <<"c","o","l">>

Keys == {K_arg0, K_col}

\* the domains: the runs of at most MaxDomLen neighbours of a list of values
Windows(list) ==
    {SubSeq(list, w[1], w[1] + w[2] - 1) :
        w \in {v \in (1..(Len(list) + 1)) \X (0..MaxDomLen) : v[1] + v[2] - 1 <= Len(list)}}

\* the values of positional domains, of named domains, and of the two-template groups
ValList == <<IntVal(1), IntVal(1), StrVal(<<".">>)>>

NamedList == <<StrVal(<<".">>), StrVal(<<"_">>)>>

PairList == <<StrVal(<<"b","_","c">>), StrVal(<<"c">>)>>

DictOrders(q) == {f \in [1..q -> 1..q] : \A i, j \in 1..q : f[i] = f[j] => i = j}

\* the with_combined calls: at most MaxPos positional domains and MaxDomains
\* domains in all, named domains for any of Keys in any written order, and the
\* iteration order of the dict that holds them (a dict of this Python iterates
\* in hash order, whatever the call wrote)
Declarations ==
    UNION {
        {[args |-> a, kwargs |-> k, order |-> o] :
            a \in [1..pq[1] -> Windows(ValList)],
            k \in {s \in [1..pq[2] -> [k : Keys, dom : Windows(NamedList)]] :
                      \A i, j \in 1..pq[2] : s[i].k = s[j].k => i = j},
            o \in DictOrders(pq[2])} :
        pq \in {v \in (0..MaxPos) \X (0..Cardinality(Keys)) : v[1] + v[2] <= MaxDomains}}

\* the docstring "T $arg0 ${col} $zz $$ $arg1 $"
Doc1 ==
    DocOf(<<[kind |-> "lit",     text |-> <<"T", " ">>],
            [kind |-> "named",   text |-> K_arg0],
            [kind |-> "braced",  text |-> K_col],
            [kind |-> "named",   text |-> <<"z","z">>],
            [kind |-> "escaped", text |-> <<"$","$">>],
            [kind |-> "named",   text |-> T_arg \o <<"1">>],
            [kind |-> "invalid", text |-> <<"$">>]>>)

Docs == {NoDoc, Doc1}

Empty == [n \in {} |-> Attribute]

\* members written by hand beside the template: two tests whose names a
\* generated entry would take, a non-callable one, a fixture, and an attribute
\* that carries _metatest_params without being callable
ExtraMembers ==
    [n \in {T_test \o N_a, T_test \o N_a \o <<"_","1">>, T_test \o N_a \o <<"_","1","_","0">>,
            <<"s","e","t","U","p">>, <<"d","a","t","a">>} |->
        CASE n = T_test \o N_a                -> Function(Doc1)
          [] n = T_test \o N_a \o <<"_","1">> -> Attribute
          [] n = <<"d","a","t","a">>          ->
                [Attribute EXCEPT !.marked = TRUE, !.args = << <<IntVal(1)>> >>]
          [] OTHER                            -> Function(NoDoc)]

Merge(f, g) == [n \in DOMAIN f \cup DOMAIN g |-> IF n \in DOMAIN f THEN f[n] ELSE g[n]]

\* one template `a` with any declaration, with or without the extra members
SingleGroups ==
    {Merge([n \in {N_a} |-> with_combined(Function(doc), d.args, d.kwargs, d.order)], x) :
        d \in Declarations, doc \in Docs, x \in {Empty, ExtraMembers}}

\* two templates, `a` and `a_b`, with one positional domain each
PairGroups ==
    {[n \in {N_a, N_a_b} |->
        with_combined(Function(Doc1), <<IF n = N_a THEN w[1] ELSE w[2]>>, <<>>, <<>>)] :
        w \in Windows(PairList) \X Windows(PairList)}

\* a template `a` without domains beside test_a and test_a_0 .. test_a_<k-1>
Crowd(k, doc) ==
    [n \in {N_a, T_test \o N_a} \cup {Suffixed(T_test \o N_a, i) : i \in 0..(k - 1)} |->
        IF n = N_a THEN with_combined(Function(doc), <<>>, <<>>, <<>>) ELSE Function(NoDoc)]

CrowdGroups == {Crowd(k, doc) : k \in {RangeStop - 1, RangeStop}, doc \in Docs}

Groups == SingleGroups \cup PairGroups \cup CrowdGroups

NoCall == [entry |-> <<>>, target |-> <<>>, args |-> <<>>, kwargs |-> <<>>]

----------------------------------------------------------------------------
(* MultiTestMeta.__new__, lines 90-127, and a generated entry being called. *)

Init ==
    /\ attrs \in Groups
    /\ declared = attrs
    /\ items = Empty
    /\ visited = {}
    /\ name = <<>>
    /\ combos = <<>>
    /\ ci = 1
    /\ pc = "start"
    /\ err = "none"
    /\ log = <<>>
    /\ call = NoCall
    /\ val = IntVal(0)
    /\ out = [done |-> TRUE, text |-> <<>>]

\* callable(method) and hasattr(method, '_metatest_params'), line 92
Selected(method) == method.callable /\ method.marked

\* attrs[actual_name] = actual_test, line 125
Put(f, k, v) == [n \in DOMAIN f \cup {k} |-> IF n = k THEN v ELSE f[n]]

\* line 91: attrs.items() is evaluated once, a list of the pairs of attrs
Start ==
    /\ pc = "start"
    /\ items' = attrs
    /\ pc' = "scan"
    /\ UNCHANGED <<attrs, declared, visited, name, combos, ci, err, log, call, val, out>>

\* lines 91-93: the outer loop reaches its next member that line 92 selects, in
\* whatever order the list has (the members line 92 rejects are passed without
\* effect), and mix_params is called on its declaration
ScanNext ==
    /\ pc = "scan"
    /\ \E n \in {m \in DOMAIN items \ visited : Selected(items[m])} :
          /\ name' = n
          /\ visited' = visited \cup {n}
          /\ combos' = mix_params(items[n].args, items[n].kwargs)
          /\ ci' = 1
          /\ pc' = IF mix_params(items[n].args, items[n].kwargs) = <<>>
                   THEN "scan" ELSE "expand"
    /\ UNCHANGED <<attrs, declared, items, err, log, call, val, out>>

\* lines 93-125: one combination; an exception leaves __new__
Expand ==
    /\ pc = "expand"
    /\ LET c == combos[ci]
           r == Materialize(DOMAIN attrs, name, items[name], c.ar, c.kw)
       IN  IF r.err # "none"
           THEN /\ pc' = "failed"
                /\ err' = r.err
                /\ UNCHANGED <<attrs, ci, log>>
           ELSE /\ attrs' = Put(attrs, r.name, r.entry)
                /\ log' = Append(log, [tmpl |-> name, idx |-> ci,
                                      assembled |-> r.assembled, name |-> r.name])
                /\ ci' = ci + 1
                /\ pc' = IF ci = Len(combos) THEN "scan" ELSE "expand"
                /\ err' = err
    /\ UNCHANGED <<declared, items, visited, name, combos, call, val, out>>

\* line 127: no member is left, the class is made of attrs
Finish ==
    /\ pc = "scan"
    /\ {m \in DOMAIN items \ visited : Selected(items[m])} = {}
    /\ pc' = "done"
    /\ UNCHANGED <<attrs, declared, items, visited, name, combos, ci, err, log, call, val, out>>

\* lines 95-96: a generated entry is called on an instance of the class:
\* getattr(self, na)(*ar, **kw).  A call changes nothing a later call reads, so
\* one call is followed.
Invoke ==
    /\ pc = "done"
    /\ call = NoCall
    /\ \E n \in {m \in DOMAIN attrs : attrs[m].gen} :
          /\ call' = [entry |-> n, target |-> attrs[n].na,
                      args |-> attrs[n].ar, kwargs |-> attrs[n].kw]
    /\ UNCHANGED <<attrs, declared, items, visited, name, combos, ci, pc, err, log, val, out>>

Next == Start \/ ScanNext \/ Expand \/ Finish \/ Invoke

Spec == Init /\ [][Next]_vars

----------------------------------------------------------------------------
(* pystr run on its own.                                                   *)

PyChars == DOMAIN AS_WORD \cup {"a", "Z", "3", "_", " ", "@", "("}

RECURSIVE Texts(_)
Texts(n) == IF n = 0 THEN {<<>>}
            ELSE Texts(n - 1) \cup {Append(t, c) : t \in Texts(n - 1), c \in PyChars}

PystrInputs ==
    {StrVal(s) : s \in Texts(MaxStrLen)} \cup {IntVal(n) : n \in 0..12}
        \cup {FloatVal(3, <<"4","5","6">>)}

InitPystr ==
    /\ val \in PystrInputs
    /\ out = [done |-> FALSE, text |-> <<>>]
    /\ attrs = Empty
    /\ declared = Empty
    /\ items = Empty
    /\ visited = {}
    /\ name = <<>>
    /\ combos = <<>>
    /\ ci = 1
    /\ pc = "pystr"
    /\ err = "none"
    /\ log = <<>>
    /\ call = NoCall

ApplyPystr ==
    /\ ~out.done
    /\ out' = [done |-> TRUE, text |-> pystr(val)]
    /\ UNCHANGED <<val, attrs, declared, items, visited, name, combos, ci, pc, err, log, call>>

NextPystr == ApplyPystr

SpecPystr == InitPystr /\ [][NextPystr]_vars

----------------------------------------------------------------------------
(* Registration as a function of the scan order: the same loop body, run   *)
(* over the selected members in the order `order`.                         *)

RECURSIVE RunTemplate(_, _, _, _, _)
\* the inner loop, lines 93-125, from combination i on
RunTemplate(st, na, method, cs, i) ==
    IF ~st.ok \/ i > Len(cs) THEN st
    ELSE LET r == Materialize(DOMAIN st.attrs, na, method, cs[i].ar, cs[i].kw)
         IN  IF r.err # "none" THEN [ok |-> FALSE, attrs |-> st.attrs]
             ELSE RunTemplate([ok |-> TRUE, attrs |-> Put(st.attrs, r.name, r.entry)],
                              na, method, cs, i + 1)

RECURSIVE RunOrder(_, _, _)
\* the outer loop, lines 91-92, over the members of `its` named in `order`
RunOrder(st, its, order) ==
    IF order = <<>> THEN st
    ELSE RunOrder(RunTemplate(st, Head(order), its[Head(order)],
                              mix_params(its[Head(order)].args, its[Head(order)].kwargs), 1),
                  its, Tail(order))

\* __new__ on `group`, its list of items holding the selected members in `order`
Registration(group, order) == RunOrder([ok |-> TRUE, attrs |-> group], group, order)

----------------------------------------------------------------------------
(* What the claims speak of.                                               *)

\* the templates of the group handed to __new__
Templates == {t \in DOMAIN declared : Selected(declared[t])}

\* the generated entries of template t now in the group
GeneratedFor(t) == {n \in DOMAIN attrs : attrs[n].gen /\ attrs[n].na = t}

\* the names in the group just before the i-th install
Before(i) == DOMAIN declared \cup {log[j].name : j \in 1..(i - 1)}

\* the lengths of the domains of a declaration, positional ones first
DomainLens(m) ==
    [i \in 1..Len(m.args) |-> Len(m.args[i])] \o [i \in 1..Len(m.kwargs) |-> Len(m.kwargs[i].dom)]

RECURSIVE Times(_)
Times(lens) == IF lens = <<>> THEN 1 ELSE Head(lens) * Times(Tail(lens))

RECURSIVE SumOfCounts(_)
SumOfCounts(S) ==
    IF S = {} THEN 0
    ELSE LET t == CHOOSE x \in S : TRUE
         IN  Times(DomainLens(declared[t])) + SumOfCounts(S \ {t})

IsPrefix(p, s) == Len(p) <= Len(s) /\ SubSeq(s, 1, Len(p)) = p

\* C1: when registration completes, each template has exactly as many generated
\* entries as the product of the lengths of its domains (one without domains,
\* none with an empty domain, one per occurrence of a repeated value), and the
\* group has its declared members plus the sum of these products.
C1_Count ==
    pc = "done" =>
        /\ \A t \in Templates :
              Cardinality(GeneratedFor(t)) = Times(DomainLens(declared[t]))
        /\ Cardinality(DOMAIN attrs) = Cardinality(DOMAIN declared) + SumOfCounts(Templates)

\* a template with a positional and a named domain, one of them repeating a
\* value, has its four entries
C1_Witness ==
    /\ pc = "done"
    /\ \E t \in Templates :
          /\ declared[t].args = << <<IntVal(1), IntVal(1)>> >>
          /\ Len(declared[t].kwargs) = 1
          /\ Cardinality(GeneratedFor(t)) = 4

\* C2: at every moment of registration, every generated name starts with
\* test_<template>, every install took a name that was in the group neither as a
\* declared member nor as an earlier generated entry, and no install replaced
\* a member.
C2_Names ==
    /\ \A n \in DOMAIN attrs : attrs[n].gen => IsPrefix(T_test \o attrs[n].na, n)
    /\ \A i \in 1..Len(log) :
          /\ IsPrefix(T_test \o log[i].tmpl, log[i].name)
          /\ log[i].name \notin Before(i)
          /\ log[i].name \in DOMAIN attrs
          /\ attrs[log[i].name].gen
    /\ Cardinality(DOMAIN attrs) = Cardinality(DOMAIN declared) + Len(log)

\* combinations of two different templates assembled to the same name, and both
\* are installed
C2_Witness ==
    \E i, j \in 1..Len(log) :
        /\ i < j
        /\ log[i].tmpl # log[j].tmpl
        /\ log[i].assembled = log[j].assembled

\* The combination the claim gives the i-th entry of a template: position i of
\* the product of the positional domains in declared order, then the named
\* domains in the order the declaration wrote them, the last one fastest.
ClaimedCombination(m, i) ==
    LET written == [j \in 1..Len(m.decl) |-> m.kwargs[KeyIndex(m.kwargs, m.decl[j])]]
        pools   == m.args \o [j \in 1..Len(written) |-> written[j].dom]
        digit(j) == ((i - 1) \div Times([l \in 1..(Len(pools) - j) |-> Len(pools[j + l])]))
                        % Len(pools[j])
    IN  [ar |-> [j \in 1..Len(m.args) |-> pools[j][digit(j) + 1]],
         kw |-> [k \in {written[j].k : j \in 1..Len(written)} |->
                    LET j == Len(m.args) + KeyIndex(written, k)
                    IN  pools[j][digit(j) + 1]]]

\* C3: the i-th entry installed for a template is bound to the template's name
\* and to the i-th combination of the claimed product order, and calls the
\* template with it.
C3_ClaimedOrder ==
    \A i \in 1..Len(log) :
        LET e == attrs[log[i].name]
            c == ClaimedCombination(declared[log[i].tmpl], log[i].idx)
        IN  /\ e.na = log[i].tmpl
            /\ e.ar = c.ar
            /\ e.kw = c.kw
            /\ call.entry = log[i].name =>
                  call.target = log[i].tmpl /\ call.args = c.ar /\ call.kwargs = c.kw

\* The name the claim gives a combination of template t.
ClaimedName(t, ar, kw) ==
    LET keys == CHOOSE s \in [1..Cardinality(DOMAIN kw) -> DOMAIN kw] :
                    \A i, j \in 1..Cardinality(DOMAIN kw) : i < j => StrLess(s[i], s[j])
        pos  == [i \in 1..Len(ar) |-> pystr(ar[i])]
        nam  == [i \in 1..Len(keys) |->
                    pystr(StrVal(keys[i])) \o <<"_">> \o pystr(kw[keys[i]])]
    IN  IF Len(pos) = 0 /\ Len(nam) = 0 THEN T_test \o t
        ELSE IF Len(nam) = 0 THEN T_test \o t \o <<"_">> \o Join(pos, <<"_">>)
        ELSE IF Len(pos) = 0 THEN T_test \o t \o <<"_">> \o Join(nam, <<"_">>)
        ELSE T_test \o t \o <<"_">> \o Join(pos, <<"_">>) \o <<"_">> \o Join(nam, <<"_">>)

\* C4: an entry bound to a combination whose claimed name was free when it was
\* installed is installed under exactly that name, as an entry of its template.
C4_AssembledName ==
    \A i \in 1..Len(log) :
        LET e == attrs[log[i].name]
            n == ClaimedName(log[i].tmpl, e.ar, e.kw)
        IN  /\ e.gen
            /\ e.na = log[i].tmpl
            /\ n \notin Before(i) => log[i].name = n

\* an entry with two named values, held by a dict that iterates col before
\* arg0, is installed under its assembled name
C4_Witness ==
    \E i \in 1..Len(log) :
        /\ log[i].name = log[i].assembled
        /\ Len(declared[log[i].tmpl].kwargs) = 2
        /\ declared[log[i].tmpl].kwargs[1].k = K_col
        /\ Len(declared[log[i].tmpl].args) = 1

\* the message of line 120 counts 1024 names
SimilarNames == 1024

\* the candidates of the search for the assembled name N: N, N_0, N_1, ...
Candidate(N, i) == IF i = 0 THEN N ELSE N \o <<"_">> \o Dec(i - 1)

C6_OnlyExhaustionFails == pc = "failed" => err = "RuntimeError"

\* the characters the claim lists as table characters
TableChars == {".", "-", "+", "#", "!", "\"", "$", "%", "&", "/", "\\", "=", ",", ";", ":"}

\* C7: pystr returns, for the text of its value, the concatenation per character
\* of: the character if alphanumeric, its replacement if it is one of the 15
\* table characters, '_' otherwise; the token has only alphanumeric characters
\* and underscores; '+' gives plus, '-' gives minus, 3.456 gives 3_456.
C7_Pystr ==
    out.done =>
        LET s == Str(val)
        IN  /\ \A i \in 1..Len(out.text) : IsAlnum(out.text[i]) \/ out.text[i] = "_"
            /\ out.text = Flatten([i \in 1..Len(s) |->
                                    IF IsAlnum(s[i]) THEN <<s[i]>>
                                    ELSE IF s[i] \in TableChars THEN AS_WORD[s[i]]
                                    ELSE <<"_">>])
            /\ val = StrVal(<<"+">>) => out.text = <<"p","l","u","s">>
            /\ val = StrVal(<<"-">>) => out.text = <<"m","i","n","u","s">>
            /\ val = FloatVal(3, <<"4","5","6">>) => out.text = <<"3","_","4","5","6">>

C7_Witness ==
    /\ out.done
    /\ val = FloatVal(3, <<"4","5","6">>)
    /\ out.text = <<"3","_","4","5","6">>

\* What the claim puts for one token of the docstring: $arg<N> gives the N-th
\* positional value, a placeholder named after a named parameter gives its
\* value, any other placeholder stays; when both rules apply to a placeholder,
\* namedWins says which one is followed.
ClaimedToken(tok, ar, kw, namedWins) ==
    IF tok.kind \in {"named", "braced"}
    THEN LET isArg == \E N \in 0..(Len(ar) - 1) : tok.text = T_arg \o Dec(N)
             isKey == tok.text \in DOMAIN kw
             N     == CHOOSE N \in 0..(Len(ar) - 1) : tok.text = T_arg \o Dec(N)
         IN  IF isKey /\ (namedWins \/ ~isArg) THEN Str(kw[tok.text])
             ELSE IF isArg THEN Str(ar[N + 1])
             ELSE IF tok.kind = "named" THEN <<"$">> \o tok.text
             ELSE <<"$", "{">> \o tok.text \o <<"}">>
    ELSE IF tok.kind = "lit" THEN tok.text
    ELSE <<"$">>

ClaimedDoc(toks, ar, kw, namedWins) ==
    Flatten([i \in 1..Len(toks) |-> ClaimedToken(toks[i], ar, kw, namedWins)])

\* C8 as stated: in the documentation string of every generated entry, every
\* $arg<N> stands for the N-th positional value and every placeholder named
\* after a named parameter for that parameter's value.
C8_BothRules ==
    \A n \in DOMAIN attrs :
        attrs[n].gen =>
            LET toks == declared[attrs[n].na].doc.toks
            IN  /\ attrs[n].gdoc = ClaimedDoc(toks, attrs[n].ar, attrs[n].kw, FALSE)
                /\ attrs[n].gdoc = ClaimedDoc(toks, attrs[n].ar, attrs[n].kw, TRUE)

\* C8 as amended: a placeholder named after a named parameter stands for that
\* parameter's value, also when its name is arg<N>; any other $arg<N> stands
\* for the N-th positional value; every other placeholder is left as it is.
C8_NamedWins ==
    \A n \in DOMAIN attrs :
        attrs[n].gen =>
            attrs[n].gdoc = ClaimedDoc(declared[attrs[n].na].doc.toks,
                                       attrs[n].ar, attrs[n].kw, TRUE)

\* an entry of a declaration with a positional domain and a named parameter
\* arg0 whose values differ
C8_Witness ==
    \E n \in DOMAIN attrs :
        /\ attrs[n].gen
        /\ Len(attrs[n].ar) = 1
        /\ K_arg0 \in DOMAIN attrs[n].kw
        /\ attrs[n].kw[K_arg0] # attrs[n].ar[1]

\* the orders in which the list of items can hold the templates
ScanOrders ==
    {s \in [1..Cardinality(Templates) -> Templates] :
        \A i, j \in 1..Cardinality(Templates) : s[i] = s[j] => i = j}

\* name -> (template, combination) of the generated entries of a group
GeneratedMap(group) ==
    [n \in {m \in DOMAIN group : group[m].gen} |-> <<group[n].na, group[n].ar, group[n].kw>>]

\* C9: registration gives every combination the same name whatever the order
\* in which the members are scanned.
C9_ScanOrderIndependent ==
    pc = "done" =>
        \A o \in ScanOrders :
            /\ Registration(declared, o).ok
            /\ GeneratedMap(Registration(declared, o).attrs) = GeneratedMap(attrs)

\* C10: every declared member stays in the group under its name with its value;
\* only declared templates are scanned and expanded, each once, its generated
\* entries (which carry its marker) never; registration ends after that pass.
C10_OnlyAdds ==
    /\ \A n \in DOMAIN declared : n \in DOMAIN attrs /\ attrs[n] = declared[n]
    /\ visited \subseteq Templates
    /\ \A i \in 1..Len(log) :
          /\ log[i].tmpl \in visited
          /\ attrs[log[i].name].marked
          /\ log[i].name \notin visited
          /\ log[i].idx = 1 + Cardinality({j \in 1..(i - 1) : log[j].tmpl = log[i].tmpl})
          /\ log[i].idx <= Times(DomainLens(declared[log[i].tmpl]))
    /\ pc = "done" => visited = Templates /\ Len(log) = SumOfCounts(Templates)

\* registration completed on a group where a generated entry was assembled to
\* the name of a declared member
C10_Witness ==
    /\ pc = "done"
    /\ \E i \in 1..Len(log) : log[i].assembled \in DOMAIN declared

====
